---- MODULE Spec2Model ----
(***************************************************************************)
(* Slide transition and preload engine of simple-slideshow.py              *)
(* (class Slideshow).  The main loop (run) and the daemon preload threads  *)
(* (_start_preload._load) share self.paths and self._preloaded without any *)
(* lock, so the main loop is cut at its blocking calls (Thread.join and    *)
(* the image decode inside Slide(...)) and the preload thread at each of   *)
(* its reads and writes of shared state.                                   *)
(*                                                                         *)
(* A Slide is represented by the identifier of the path it was rendered    *)
(* from (1..MaxPaths); Python list positions are 0-based.                  *)
(***************************************************************************)
EXTENDS Integers, Sequences, FiniteSets, TLC

\* ---------------------------------------------------------------- bounds
\* Largest catalog scan_photos returns.
MaxPaths == 3
\* Preload threads alive at once (a handler that would start one more is
\* not taken while this many are alive).
MaxThreads == 2
\* Clock units that pass inside one _update call, between its time.time()
\* and the end of the call (spent in join or in a decode).
MaxLate == 1

\* ---------------------------------------------------- configuration values
\* Config.rotation_seconds and Config.transition_duration, in clock units of
\* half a second, set to the 2 s / 1 s of the specification's scenario.
RotationSeconds == 4
TransitionDuration == 2

\* Python's None, for a slide reference or a path.
None == 0

VARIABLES
  paths,            \* self.paths: the catalog, a sequence of path identifiers
  bad,              \* the identifiers whose decode raises OSError (fixed)
  index,            \* self.index
  paused,           \* self.paused
  running,          \* self.running
  transitioning,    \* self.transitioning
  trans_age,        \* time.time() - self.transition_start, up to
                    \* TransitionDuration, while transitioning (else 0)
  current_slide,    \* self.current_slide
  next_slide,       \* self.next_slide
  alpha,            \* self.alpha
  slide_age,        \* time.time() - self.slide_start, up to RotationSeconds.
                    \* Nothing reads it while transitioning or paused, and
                    \* _finish_transition and a resume restart it: it is
                    \* kept at 0 while transitioning and, while paused and
                    \* Idle, at RotationSeconds, which it reaches if the
                    \* pause lasts
  preloaded,        \* self._preloaded
  preloaded_tag,    \* history: which request wrote self._preloaded
  threads,          \* the preload threads still alive (in the order of
                    \* ThreadKey: which thread is which does not matter)
  pc,               \* where the main thread is
  loc,              \* the main thread's local variables
  crashed,          \* the exception that ended the main thread, or "none"
  fwd               \* history: the forward advances handled so far, modulo
                    \* the catalog length, while forward advances are the
                    \* only events so far, no auto-advance has begun and
                    \* every path decodes (else NoCount)

vars == <<paths, bad, index, paused, running, transitioning, trans_age,
          current_slide, next_slide, alpha, slide_age, preloaded,
          preloaded_tag, threads, pc, loc, crashed, fwd>>

\* ------------------------------------------------------------- sequences
Range(s) == {s[i] : i \in 1..Len(s)}

\* list[idx] for a 0-based idx < len(list)
At(s, idx) == s[idx + 1]

\* list.pop(idx) for a 0-based idx < len(list)
Pop(s, idx) == [i \in 1..(Len(s) - 1) |-> IF i <= idx THEN s[i] ELSE s[i + 1]]

\* list.index(x) for x in list
IndexOf(s, x) == (CHOOSE i \in 1..Len(s) : s[i] = x) - 1

Min(a, b) == IF a <= b THEN a ELSE b

\* ------------------------------------------------------------ main locals
\* h: the handler being run; dir: _advance's direction; next_idx: the local
\* of _begin_transition; path: the local of _load_slide; late: time.time()
\* minus _update's `now`.  History: intr is the next slide of the transition
\* _advance found Active (None: it found none); h_paths and h_target are the
\* catalog and the target position when the handler first entered
\* _begin_transition; h_slot is the slide in self._preloaded at that moment
\* if the latest preload request put it there and was for the target
\* position, the natural next index (else None).
NoLoc == [h |-> "none", dir |-> 0, next_idx |-> 0, path |-> None, late |-> 0,
          intr |-> None, h_paths |-> <<>>, h_target |-> 0, h_slot |-> None]

NoCount == None - 1

NoTag == [idx |-> 0, latest |-> TRUE]
\* The alpha of a slide that _draw does not draw.
NotDrawn == -1

\* The fields the main thread's code can change, as one record.
Cur ==
  [paths |-> paths, index |-> index, paused |-> paused, running |-> running,
   transitioning |-> transitioning, trans_age |-> trans_age,
   current_slide |-> current_slide, next_slide |-> next_slide, alpha |-> alpha,
   slide_age |-> slide_age, preloaded |-> preloaded,
   preloaded_tag |-> preloaded_tag, threads |-> threads, pc |-> pc, loc |-> loc,
   crashed |-> crashed, fwd |-> fwd]

Install(s) ==
  /\ paths' = s.paths
  /\ index' = s.index
  /\ paused' = s.paused
  /\ running' = s.running
  /\ transitioning' = s.transitioning
  /\ trans_age' = s.trans_age
  /\ current_slide' = s.current_slide
  /\ next_slide' = s.next_slide
  /\ alpha' = s.alpha
  /\ slide_age' = s.slide_age
  /\ preloaded' = s.preloaded
  /\ preloaded_tag' = s.preloaded_tag
  /\ threads' = s.threads
  /\ pc' = s.pc
  /\ loc' = s.loc
  /\ crashed' = s.crashed
  /\ fwd' = s.fwd

\* An exception nobody catches ends run(): the process dies where it is,
\* and its daemon threads with it.
Crash(s, e) == [s EXCEPT !.crashed = e, !.pc = "crashed", !.threads = <<>>]

\* ------------------------------------------------------------ the engine
\* _next_index / _prev_index, for a non-empty catalog (the callers below
\* raise ZeroDivisionError for an empty one).
NextIndex(s) == (s.index + 1) % Len(s.paths)

PrevIndex(s) == (s.index - 1) % Len(s.paths)

\* A preload thread: idx is _load's closure variable, path the local of its
\* _load_slide call, pc where it is, latest whether self._preload_thread is
\* this thread.
ThreadKey(th) ==
  LET at == CASE th.pc = "start" -> 0 [] th.pc = "decode" -> 1 [] th.pc = "store" -> 2
  IN  ((th.idx * 3 + at) * (MaxPaths + 1) + th.path) * 2 + (IF th.latest THEN 1 ELSE 0)

\* The threads `ths` and `th`, in the order of ThreadKey.
WithThread(ths, th) ==
  LET n == Cardinality({i \in 1..Len(ths) : ThreadKey(ths[i]) <= ThreadKey(th)})
  IN  [i \in 1..(Len(ths) + 1) |->
         IF i <= n THEN ths[i] ELSE IF i = n + 1 THEN th ELSE ths[i - 1]]

\* _start_preload: a new daemon thread, which becomes self._preload_thread.
StartPreload(s, idx) ==
  [s EXCEPT !.threads =
     WithThread([i \in 1..Len(s.threads) |-> [s.threads[i] EXCEPT !.latest = FALSE]],
                [idx |-> idx, pc |-> "start", path |-> None, latest |-> TRUE])]

\* _finish_transition without its `self.alpha = 255`.
FinishTransition_KeepAlpha(s) ==
  LET s1 == [s EXCEPT !.current_slide = s.next_slide, !.next_slide = None,
                      !.transitioning = FALSE, !.trans_age = 0]
  IN  IF s1.current_slide = None THEN Crash(s1, "AttributeError")
      ELSE IF s1.current_slide \notin Range(s1.paths) THEN Crash(s1, "ValueError")
      ELSE [s1 EXCEPT !.index = IndexOf(s1.paths, s1.current_slide),
                      !.slide_age = 0]

\* _finish_transition without its `self.current_slide = self.next_slide`.
FinishTransition_DropNext(s) ==
  LET s1 == [s EXCEPT !.next_slide = None, !.transitioning = FALSE,
                      !.trans_age = 0, !.alpha = 255]
  IN  IF s1.current_slide = None THEN Crash(s1, "AttributeError")
      ELSE IF s1.current_slide \notin Range(s1.paths) THEN Crash(s1, "ValueError")
      ELSE [s1 EXCEPT !.index = IndexOf(s1.paths, s1.current_slide),
                      !.slide_age = 0]

\* _finish_transition
FinishTransition(s) ==
  LET s1 == [s EXCEPT !.current_slide = s.next_slide, !.next_slide = None,
                      !.transitioning = FALSE, !.trans_age = 0,
                      !.alpha = 255]
  IN  IF s1.current_slide = None THEN Crash(s1, "AttributeError")
      ELSE IF s1.current_slide \notin Range(s1.paths) THEN Crash(s1, "ValueError")
      ELSE [s1 EXCEPT !.index = IndexOf(s1.paths, s1.current_slide),
                      !.slide_age = 0]

\* round(10^6 * cos(j * pi / 12)), j in 0..12
CosTable == <<1000000, 965926, 866025, 707107, 500000, 258819, 0,
              -258819, -500000, -707107, -866025, -965926, -1000000>>

\* 10^6 * math.cos(progress * math.pi) for progress = k / TransitionDuration
\* (cos is even and 2*pi-periodic; k may be negative).
CosMicro(k) ==
  LET j == ((k * 12) \div TransitionDuration) % 24
  IN  IF j <= 12 THEN CosTable[j + 1] ELSE CosTable[24 - j + 1]

\* int(255 * (1 - eased)) with eased = (1 - cos(progress * pi)) / 2 and
\* progress = min(elapsed / transition_duration, 1.0)
EasedAlpha(elapsed) ==
  LET k == Min(elapsed, TransitionDuration)
      eased == (1000000 - CosMicro(k)) \div 2
  IN  (255 * (1000000 - eased)) \div 1000000

\* _draw: the alphas it gives to _draw_slide for current_slide and for
\* next_slide.  _draw writes nothing the engine reads.
Draw(s) ==
  [cur |-> IF s.current_slide # None
           THEN (IF s.transitioning THEN s.alpha ELSE 255) ELSE NotDrawn,
   nxt |-> IF s.transitioning /\ s.next_slide # None
           THEN 255 - s.alpha ELSE NotDrawn]

\* The end of one pass of run(): _draw shows Draw(s), then
\* `while self.running`; when run() returns the process ends, and its
\* daemon threads with it.
EndOfPass(s) ==
  [s EXCEPT !.pc = IF s.running THEN "loop" ELSE "exit", !.loc = NoLoc,
            !.threads = IF s.running THEN @ ELSE <<>>,
            !.slide_age = IF s.paused /\ ~s.transitioning
                          THEN RotationSeconds ELSE @]

\* _update from `# Progress transition` on.
ProgressTransition(s) ==
  IF s.transitioning
  THEN LET elapsed == s.trans_age - s.loc.late
           s1 == [s EXCEPT !.alpha = EasedAlpha(elapsed)]
       IN  IF elapsed >= TransitionDuration THEN FinishTransition(s1) ELSE s1
  ELSE s

\* What follows a return from _begin_transition: _advance returns to
\* _handle_events (and a direct call to its caller); _update goes on to
\* progress the transition and run() draws.
Return(s) ==
  IF s.loc.h \in {"advance", "call"} THEN [s EXCEPT !.pc = "loop", !.loc = NoLoc]
  ELSE LET u == ProgressTransition(s)
       IN  IF u.crashed # "none" THEN u ELSE EndOfPass(u)

\* _begin_transition without its `if self.transitioning: return`.
BeginTransition_NoGuard(s, target_index) ==
  IF Len(s.paths) = 0 THEN Return([s EXCEPT !.running = FALSE])
  ELSE LET next_idx == target_index % Len(s.paths)
           first == s.loc.h_paths = <<>>
       IN  [s EXCEPT !.loc.next_idx = next_idx,
                     !.loc.h_paths = IF first THEN s.paths ELSE @,
                     !.loc.h_target = IF first THEN next_idx ELSE @,
                     !.pc = IF next_idx = NextIndex(s) THEN "join" ELSE "load"]

\* _begin_transition up to its first blocking call: the join in
\* _get_preloaded or the decode in _load_slide.
BeginTransition(s, target_index) ==
  IF s.transitioning THEN Return(s)
  ELSE IF Len(s.paths) = 0 THEN Return([s EXCEPT !.running = FALSE])
  ELSE LET next_idx == target_index % Len(s.paths)
           first == s.loc.h_paths = <<>>
       IN  [s EXCEPT !.loc.next_idx = next_idx,
                     !.loc.h_paths = IF first THEN s.paths ELSE @,
                     !.loc.h_target = IF first THEN next_idx ELSE @,
                     !.loc.h_slot =
                        IF ~first THEN @
                        ELSE IF /\ next_idx = NextIndex(s)
                                /\ s.preloaded # None
                                /\ s.preloaded_tag.latest
                                /\ s.preloaded_tag.idx = next_idx
                        THEN s.preloaded ELSE None,
                     !.pc = IF next_idx = NextIndex(s) THEN "join" ELSE "load"]

\* _begin_transition after a slide was obtained (lines 237-244).
Commit(s, slide) ==
  LET s1 == [s EXCEPT !.next_slide = slide, !.transitioning = TRUE,
                      !.trans_age = 0, !.slide_age = 0, !.alpha = 255,
                      !.preloaded = None, !.preloaded_tag = NoTag]
  IN  IF Len(s1.paths) = 0 THEN Crash(s1, "ZeroDivisionError")
      ELSE Return(StartPreload(s1, (s1.loc.next_idx + 1) % Len(s1.paths)))

\* _get_preloaded after the join returned.
GetPreloaded(s) ==
  IF s.preloaded # None THEN Commit(s, s.preloaded)
  ELSE IF s.loc.next_idx < Len(s.paths) THEN [s EXCEPT !.pc = "load"]
  ELSE BeginTransition(s, s.loc.next_idx)

\* _load_slide, first line: path = self.paths[idx]
LoadSlideRead(s) ==
  IF s.loc.next_idx >= Len(s.paths) THEN Crash(s, "IndexError")
  ELSE [s EXCEPT !.loc.path = At(s.paths, s.loc.next_idx), !.pc = "decode"]

\* _load_slide, the rest: Slide(path) and, on OSError, self.paths.pop(idx);
\* then _begin_transition goes on with the result.
LoadSlideDecode(s) ==
  IF s.loc.path \notin bad THEN Commit(s, s.loc.path)
  ELSE IF s.loc.next_idx >= Len(s.paths) THEN Crash(s, "IndexError")
  ELSE BeginTransition([s EXCEPT !.paths = Pop(s.paths, s.loc.next_idx),
                                 !.loc.path = None],
                       s.loc.next_idx)

\* _advance up to the first blocking call.
AdvanceBody(s, direction) ==
  LET s0 == [s EXCEPT !.loc.h = "advance", !.loc.dir = direction,
                      !.loc.intr = IF s.transitioning THEN s.next_slide ELSE None,
                      !.fwd = IF s.fwd = NoCount \/ direction < 0 THEN NoCount
                              ELSE (s.fwd + 1) % Len(s.paths)]
      s1 == IF s0.transitioning THEN FinishTransition(s0) ELSE s0
  IN  IF s1.crashed # "none" THEN s1
      ELSE IF Len(s1.paths) = 0 THEN Crash(s1, "ZeroDivisionError")
      ELSE BeginTransition(s1, IF direction > 0 THEN NextIndex(s1)
                                                 ELSE PrevIndex(s1))

\* _update without `not self.paused` in its auto-advance test.
UpdateBody_IgnorePause(s) ==
  LET s0 == [s EXCEPT !.loc.h = "update", !.loc.late = 0]
  IN  IF ~s0.transitioning /\ s0.slide_age >= RotationSeconds
      THEN IF Len(s0.paths) = 0 THEN Crash(s0, "ZeroDivisionError")
           ELSE BeginTransition([s0 EXCEPT !.fwd = NoCount], NextIndex(s0))
      ELSE Return(s0)

\* _update up to the first blocking call (or to its end).
UpdateBody(s) ==
  LET s0 == [s EXCEPT !.loc.h = "update", !.loc.late = 0]
  IN  IF ~s0.paused /\ ~s0.transitioning
         /\ s0.slide_age >= RotationSeconds
      THEN IF Len(s0.paths) = 0 THEN Crash(s0, "ZeroDivisionError")
           ELSE BeginTransition([s0 EXCEPT !.fwd = NoCount], NextIndex(s0))
      ELSE Return(s0)

\* ------------------------------------------------------------ main actions
LiveLatest == \E i \in 1..Len(threads) : threads[i].latest

\* K_RIGHT / K_SPACE (+1) or K_LEFT (-1) in _handle_events
Advance(direction) ==
  /\ pc = "loop"
  /\ running
  /\ Len(threads) < MaxThreads
  /\ Install(AdvanceBody(Cur, direction))
  /\ UNCHANGED bad

\* K_p in _handle_events
PauseToggle ==
  /\ pc = "loop"
  /\ running
  /\ paused' = ~paused
  /\ slide_age' = IF paused \/ transitioning THEN 0 ELSE RotationSeconds
  /\ fwd' = NoCount
  /\ UNCHANGED <<paths, bad, index, running, transitioning, trans_age,
                 current_slide, next_slide, alpha, preloaded, preloaded_tag,
                 threads, pc, loc, crashed>>

\* pygame.QUIT, K_ESCAPE or K_q in _handle_events, and the rest of that
\* pass: _update and _draw run before `while self.running` is looked at.
Quit ==
  /\ pc = "loop"
  /\ running
  /\ Len(threads) < MaxThreads
  /\ Install(UpdateBody([Cur EXCEPT !.running = FALSE, !.fwd = NoCount]))
  /\ UNCHANGED bad

\* _update and _draw, the end of a pass of run() (the last pass, if an
\* event handler of this pass cleared self.running)
Update ==
  /\ pc = "loop"
  /\ Len(threads) < MaxThreads
  /\ Install(UpdateBody(Cur))
  /\ UNCHANGED bad

\* self._preload_thread.join(timeout=5) returns because the thread ended
JoinReturn ==
  /\ pc = "join"
  /\ ~LiveLatest
  /\ Install(GetPreloaded(Cur))
  /\ UNCHANGED bad

\* self._preload_thread.join(timeout=5) returns with the thread still alive
JoinTimeout ==
  /\ pc = "join"
  /\ LiveLatest
  /\ Install(GetPreloaded(Cur))
  /\ UNCHANGED bad

MainRead ==
  /\ pc = "load"
  /\ Install(LoadSlideRead(Cur))
  /\ UNCHANGED bad

MainDecode ==
  /\ pc = "decode"
  /\ Install(LoadSlideDecode(Cur))
  /\ UNCHANGED bad

\* ---------------------------------------------------------- preload thread
\* The daemon threads run while the process is alive.
Alive == pc \notin {"exit", "crashed"}

\* What the main thread alone holds: the engine's fields and its own locals.
engine == <<index, paused, running, transitioning, trans_age, current_slide,
            next_slide, alpha, slide_age, pc, loc, crashed, fwd>>

Without(i) == [j \in 1..(Len(threads) - 1) |->
                 IF j < i THEN threads[j] ELSE threads[j + 1]]

\* _load: `if idx < len(self.paths)` and, in _load_slide,
\* `path = self.paths[idx]`.  (A pop between the two makes the read raise
\* IndexError, which ends the thread as the failed test does.)
ThreadRead(i) ==
  /\ Alive
  /\ threads[i].pc = "start"
  /\ threads' = IF threads[i].idx < Len(paths)
                THEN WithThread(Without(i),
                                [threads[i] EXCEPT !.pc = "decode",
                                                   !.path = At(paths, threads[i].idx)])
                ELSE Without(i)
  /\ UNCHANGED <<paths, bad, preloaded, preloaded_tag>>
  /\ UNCHANGED engine

\* _load_slide in the thread: Slide(path) succeeds and _load stores it in
\* self._preloaded, or it raises OSError and self.paths.pop(idx) runs (an
\* IndexError there ends the thread).
ThreadDecode(i) ==
  /\ Alive
  /\ threads[i].pc = "decode"
  /\ IF threads[i].path \notin bad
     THEN /\ preloaded' = threads[i].path
          /\ preloaded_tag' = [idx |-> threads[i].idx, latest |-> threads[i].latest]
          /\ threads' = Without(i)
          /\ paths' = paths
     ELSE IF threads[i].idx < Len(paths)
     THEN /\ paths' = Pop(paths, threads[i].idx)
          /\ threads' = WithThread(Without(i),
                                   [threads[i] EXCEPT !.pc = "store", !.path = None])
          /\ UNCHANGED <<preloaded, preloaded_tag>>
     ELSE /\ threads' = Without(i)
          /\ UNCHANGED <<paths, preloaded, preloaded_tag>>
  /\ UNCHANGED bad
  /\ UNCHANGED engine

\* _load: self._preloaded = None, the result of the failed _load_slide
ThreadStore(i) ==
  /\ Alive
  /\ threads[i].pc = "store"
  /\ preloaded' = None
  /\ preloaded_tag' = NoTag
  /\ threads' = Without(i)
  /\ UNCHANGED <<paths, bad>>
  /\ UNCHANGED engine

\* ------------------------------------------------------------------- clock
\* One unit of time passes (between passes of run(), or while the main
\* thread is blocked in join or in a decode).
Tick ==
  /\ Alive
  /\ running
  /\ loc.h = "update" => loc.late < MaxLate
  /\ slide_age' = IF paused \/ transitioning THEN slide_age
                  ELSE Min(slide_age + 1, RotationSeconds)
  /\ trans_age' = IF transitioning THEN Min(trans_age + 1, TransitionDuration)
                                   ELSE trans_age
  /\ loc' = IF loc.h = "update" THEN [loc EXCEPT !.late = loc.late + 1] ELSE loc
  /\ UNCHANGED <<paths, bad, index, paused, running, transitioning,
                 current_slide, next_slide, alpha, preloaded, preloaded_tag,
                 threads, pc, crashed, fwd>>

\* ------------------------------------------------------------ construction
\* Slideshow.__init__ for a catalog of n paths of which `b` do not decode.
Constructed(n, b) ==
  LET all == [i \in 1..n |-> i]
      first_ok == 1 \notin b
      s0 == [paths |-> IF first_ok THEN all ELSE Pop(all, 0), index |-> 0,
             paused |-> FALSE, running |-> TRUE, transitioning |-> FALSE,
             trans_age |-> 0, current_slide |-> IF first_ok THEN 1 ELSE None,
             next_slide |-> None, alpha |-> 255, slide_age |-> 0,
             preloaded |-> None, preloaded_tag |-> NoTag, threads |-> <<>>,
             pc |-> "loop", loc |-> NoLoc, crashed |-> "none",
             fwd |-> IF b = {} THEN 0 ELSE NoCount]
  IN  IF Len(s0.paths) = 0 THEN Crash(s0, "ZeroDivisionError")
      ELSE StartPreload(s0, NextIndex(s0))

Init ==
  /\ \E n \in 1..MaxPaths : \E b \in SUBSET (1..n) :
       /\ bad = b
       /\ LET s == Constructed(n, b)
          IN  /\ paths = s.paths
              /\ index = s.index
              /\ paused = s.paused
              /\ running = s.running
              /\ transitioning = s.transitioning
              /\ trans_age = s.trans_age
              /\ current_slide = s.current_slide
              /\ next_slide = s.next_slide
              /\ alpha = s.alpha
              /\ slide_age = s.slide_age
              /\ preloaded = s.preloaded
              /\ preloaded_tag = s.preloaded_tag
              /\ threads = s.threads
              /\ pc = s.pc
              /\ loc = s.loc
              /\ crashed = s.crashed
              /\ fwd = s.fwd

Next ==
  \/ Advance(1)
  \/ Advance(-1)
  \/ PauseToggle
  \/ Quit
  \/ Update
  \/ JoinReturn
  \/ JoinTimeout
  \/ MainRead
  \/ MainDecode
  \/ \E i \in 1..Len(threads) : ThreadRead(i)
  \/ \E i \in 1..Len(threads) : ThreadDecode(i)
  \/ \E i \in 1..Len(threads) : ThreadStore(i)
  \/ Tick

Spec == Init /\ [][Next]_vars

\* ------------------------------------------------- direct calls (unit level)
\* _finish_transition called on the object as it stands between two
\* handlers, as a unit test of the method calls it.  run() itself calls it
\* only while transitioning.
FinishTransitionCall ==
  /\ pc = "loop"
  /\ running
  /\ Install(FinishTransition(Cur))
  /\ UNCHANGED bad

NextDirect == Next \/ FinishTransitionCall

SpecDirect == Init /\ [][NextDirect]_vars

\* ------------------------------------------------------------------ claims
ThreadStep ==
  \E i \in 1..Len(threads) : ThreadRead(i) \/ ThreadDecode(i) \/ ThreadStore(i)

\* A handler's _begin_transition installs a next slide in this step.
Commits == pc \in {"join", "decode"} /\ transitioning' /\ crashed' = "none"

\* The first decodable entry of catalog `cat` at or after 0-based position t,
\* wrapping around (None if there is none).
FirstGood(cat, t) ==
  LET n == Len(cat)
      offs == {k \in 0..(n - 1) : At(cat, (t + k) % n) \notin bad}
  IN  IF offs = {} THEN None
      ELSE At(cat, (t + (CHOOSE k \in offs : \A j \in offs : k <= j)) % n)

\* C1: between two handlers of the main loop, whenever the catalog is not
\* empty, 0 <= index < len(catalog).
C1_IndexInRange ==
  (pc = "loop" /\ Len(paths) > 0) => (0 <= index /\ index < Len(paths))

\* C2: a non-empty preload slot holds the result of the most recently issued
\* preload request: a superseded request never writes the slot.
C2_SlotFromLatestRequest ==
  preloaded # None => preloaded_tag.latest

\* C3: at most one preload thread is alive at any moment.
C3_AtMostOneLiveThread ==
  Len(threads) <= 1

\* C4: no step of a preload thread changes the catalog or an engine field
\* (index, current, next, transitioning).
C4_ThreadWritesOnlySlot ==
  [][ThreadStep => UNCHANGED <<paths, index, current_slide, next_slide,
                               transitioning>>]_vars

\* C5: with no decode failures, after K forward advances from index 0, once
\* the last transition has completed, index = K mod N and current is the
\* slide of Catalog[K mod N].
C5_ForwardAdvances ==
  (fwd # NoCount /\ pc = "loop" /\ ~transitioning)
    => (index = fwd /\ current_slide = At(paths, fwd))

\* C6: a navigation input handled while a transition toward S is Active
\* first commits S (current = S, index = S's position), and, with no decode
\* failures, ends with the engine Active and next = the neighbour of S in
\* the requested direction.
C6_ManualInterrupt ==
  [][/\ (pc = "loop" /\ transitioning /\ loc'.h = "advance")
          => /\ crashed' = "none"
             /\ current_slide' = next_slide
             /\ index' = IndexOf(paths', current_slide')
     /\ (Commits /\ loc.h = "advance" /\ loc.intr # None /\ bad = {})
          => /\ current_slide' = loc.intr
             /\ next_slide' = At(paths', (IndexOf(paths', loc.intr) + loc.dir)
                                           % Len(paths'))]_vars

\* C7: once every catalog entry has been removed, the program does not end
\* in an exception: the only outcome is running = false.
C7_CleanExhaustion ==
  [][Len(paths') = 0 => crashed' = "none"]_vars

\* C8: when the entry a transition targets fails to decode and has been
\* removed by the time the transition starts, the transition goes to the
\* entry that followed it (wrapping around), and no entry that decodes is
\* removed from the catalog.
C8_SkipFailedEntry ==
  [][(/\ Commits
      /\ At(loc.h_paths, loc.h_target) \in bad
      /\ At(loc.h_paths, loc.h_target) \notin Range(paths'))
       => /\ next_slide' = FirstGood(loc.h_paths, loc.h_target)
          /\ (Range(loc.h_paths) \ bad) \subseteq Range(paths')]_vars

\* C9: _finish_transition called while Idle changes nothing: current, next,
\* index, transitioning, alpha and the catalog stay as they are.
C9_FinishIdleNoOp ==
  [][(FinishTransitionCall /\ ~transitioning)
       => /\ crashed' = "none"
          /\ UNCHANGED <<current_slide, next_slide, index, transitioning,
                         alpha, paths>>]_vars

\* The frame _draw shows between two handlers (and in the last pass): while
\* Active the alphas of current and next are in 0..255 and sum to 255, while
\* Idle current is drawn at 255 and next is not drawn.
C10_Frames ==
  (pc \in {"loop", "exit"} /\ current_slide # None) =>
     LET d == Draw(Cur)
     IN  IF transitioning
         THEN d.cur \in 0..255 /\ d.nxt \in 0..255 /\ d.cur + d.nxt = 255
         ELSE d.cur = 255 /\ d.nxt = NotDrawn

\* self.alpha is 255 when _begin_transition returns to _advance with a
\* transition begun, and after every _finish_transition.
C10_AlphaReset ==
  /\ (Commits /\ loc.h = "advance") => alpha' = 255
  /\ (transitioning /\ ~transitioning') => alpha' = 255

\* C10: in every frame drawn while a transition is Active the alphas of the
\* current and the next slide are integers in 0..255 that sum to 255; while
\* Idle the current slide is drawn at 255; alpha is 255 right after
\* _begin_transition and right after _finish_transition.
C10_Alpha == [](C10_Frames) /\ [][C10_AlphaReset]_vars

\* A frame in the middle of a crossfade, both slides half visible.
C10_Witness ==
  /\ pc = "loop" /\ transitioning /\ current_slide # None
  /\ alpha = 127 /\ Draw(Cur).nxt = 128

\* C11: whenever the catalog is not empty, current_slide is a Slide (not
\* None), also when the first catalog entry failed to decode in __init__.
C11_CurrentValid ==
  Len(paths) > 0 => current_slide # None

\* ------------------------------------------------ the loop left to itself
\* run() when pygame.event.get() never returns an event: only _update and
\* _draw run, the preload threads and the clock go on.
NextNoInput ==
  \/ Update
  \/ JoinReturn
  \/ JoinTimeout
  \/ MainRead
  \/ MainDecode
  \/ \E i \in 1..Len(threads) : ThreadRead(i)
  \/ \E i \in 1..Len(threads) : ThreadDecode(i)
  \/ \E i \in 1..Len(threads) : ThreadStore(i)
  \/ Tick

SpecNoInput == Init /\ [][NextNoInput]_vars

\* An _update that finds the engine Idle before the rotation interval has
\* elapsed begins no transition.
C12_NotBefore ==
  (Update /\ ~transitioning /\ slide_age < RotationSeconds)
    => (pc' = "loop" /\ ~transitioning')

\* The first _update that finds the interval elapsed enters
\* _begin_transition toward the next catalog position.
C12_BeginsWhenDue ==
  (Update /\ ~transitioning /\ slide_age >= RotationSeconds)
    => (pc' \in {"join", "load"} /\ loc'.next_idx = (index + 1) % Len(paths))

\* The transition that begins goes to the next catalog entry.
C12_TowardNextEntry ==
  (Commits /\ loc.h = "update")
    => next_slide' = At(paths, (index + 1) % Len(paths))

\* The transition completes in the first _update whose `now` is at least
\* transition_duration after its start, and in none before: current is
\* then the target, the engine is Idle and the slide timer restarts.
C12_Completes ==
  /\ (Update /\ transitioning /\ trans_age >= TransitionDuration)
       => /\ crashed' = "none" /\ ~transitioning'
          /\ current_slide' = next_slide
          /\ index' = IndexOf(paths, next_slide)
          /\ slide_age' = 0
  /\ (Update /\ transitioning /\ trans_age < TransitionDuration)
       => (transitioning' /\ current_slide' = current_slide)

\* C12: with no input, no pause and no decode failure, no transition begins
\* before the rotation interval has elapsed on the slide timer, a
\* transition to the next catalog entry begins in the first _update after
\* it has, and it completes in the first _update at least
\* transition_duration after its start, leaving current = the target, the
\* engine Idle and the slide timer restarted.
C12_AutoAdvanceTiming ==
  [][bad = {} => /\ C12_NotBefore
                 /\ C12_BeginsWhenDue
                 /\ C12_TowardNextEntry
                 /\ C12_Completes]_vars

\* C13: when the latest preload request was for the natural next index and
\* its slide is in the slot when _begin_transition is called for that
\* index, _begin_transition takes that slide as next without any
\* synchronous load, and leaves the slot empty.
C13_PreloadHit ==
  [][((JoinReturn \/ JoinTimeout) /\ loc.h_slot # None)
       => /\ crashed' = "none"
          /\ transitioning'
          /\ next_slide' = loc.h_slot
          /\ preloaded' = None]_vars

\* C14: _get_preloaded returns the slide in the slot only if it was loaded
\* for expected_idx, and the slide _begin_transition installs as next is
\* the one of the catalog entry at its target position.
C14_ConsumeMatches ==
  [][/\ ((JoinReturn \/ JoinTimeout) /\ preloaded # None)
          => preloaded_tag.idx = loc.next_idx
     /\ Commits
          => /\ loc.next_idx < Len(paths')
             /\ next_slide' = At(paths', loc.next_idx)]_vars

\* ------------------------------------------------------ the loop kept going
\* The engine is at the top of a pass of run() with a transition whose
\* duration has elapsed: the _update of this pass finishes it.
Overdue ==
  /\ pc = "loop" /\ Len(threads) < MaxThreads
  /\ transitioning /\ trans_age >= TransitionDuration

\* The preload threads are scheduled, time advances, and run() does not
\* stay forever before an _update that has a transition to finish
\* (clock.tick(60) returns).  This asks less than WF_vars(Update).
SpecLive ==
  /\ Init /\ [][Next]_vars
  /\ WF_vars(ThreadStep)
  /\ WF_vars(Tick)
  /\ ([]<>(~Overdue) \/ []<><<Update>>_vars)

\* The next slide leaves the next slot only by becoming current.
C15_NotDropped ==
  (next_slide # None /\ next_slide' # next_slide) => current_slide' = next_slide

\* C15: a slide installed as next is never dropped: the next slot is left
\* only by that slide becoming current, and while the loop keeps running
\* (no quit, the main thread alive) every transition is eventually
\* committed, by _update or by a navigation input.
C15_NeverAbandoned ==
  /\ [][C15_NotDropped]_vars
  /\ (transitioning /\ next_slide # None)
       ~> (~transitioning \/ ~running \/ crashed # "none")

\* A transition committed by its own progress: _update has just finished it.
C15_Witness ==
  /\ pc = "loop" /\ ~transitioning /\ index = 1 /\ current_slide = 2
  /\ slide_age = 0 /\ fwd = NoCount /\ ~paused /\ bad = {}
  /\ Len(threads) = 1 /\ threads[1].idx = 2

\* _update enters _begin_transition only from Idle, not paused, with the
\* rotation interval elapsed on the slide timer (restarted by
\* _finish_transition and by a resume), and a transition begins only
\* inside the _begin_transition of _advance or of _update.
C16_OnlyWhenDue ==
  /\ (pc = "loop" /\ pc' \in {"join", "load"} /\ loc'.h = "update")
       => (~transitioning /\ ~paused /\ slide_age >= RotationSeconds)
  /\ (~transitioning /\ transitioning')
       => (pc \in {"join", "decode"} /\ loc.h \in {"advance", "update"})

\* While paused a transition begins only in the handler of a navigation key.
C16_PausedOnlyByKey ==
  (paused /\ ~transitioning /\ transitioning') => loc.h = "advance"

\* K_p changes the paused flag and the slide timer, nothing else.
C16_ToggleOnly ==
  paused' # paused
    => UNCHANGED <<paths, index, current_slide, next_slide, transitioning,
                   trans_age, alpha, preloaded, threads, running, pc>>

\* C16: auto-advance begins a transition only when the engine is Idle, not
\* paused and the rotation interval has elapsed since the slide timer was
\* last restarted (by _finish_transition or by a resume); while paused no
\* transition begins without a navigation key; a pause toggle changes only
\* the paused flag and the timer.
C16_AutoAdvanceGuard ==
  [][C16_OnlyWhenDue /\ C16_PausedOnlyByKey /\ C16_ToggleOnly]_vars

\* _update has just begun an auto-advance: Idle, not paused, interval elapsed.
C16_Witness ==
  /\ pc = "join" /\ loc.h = "update" /\ ~paused /\ ~transitioning
  /\ slide_age = RotationSeconds /\ loc.next_idx = (index + 1) % Len(paths)

\* The main thread is inside _begin_transition, at one of its blocking calls.
InBegin == pc \in {"join", "load", "decode"}

\* C17: a _begin_transition called from Idle ends in one of two outcomes:
\* the engine is Active with a next slide and a new preload thread started,
\* or the catalog is empty and running is false; it does not end in an
\* exception.
C17_BeginOutcomes ==
  [][(InBegin /\ ~InBegin')
       => /\ crashed' = "none"
          /\ \/ /\ transitioning' /\ next_slide' # None
                /\ \/ pc' = "exit"
                   \/ \E i \in 1..Len(threads') : threads'[i].latest
             \/ (Len(paths') = 0 /\ ~running')]_vars

\* C18: every entry removed from the catalog is one whose decode fails, so
\* _finish_transition always finds the committed slide's path in it.
C18_OnlyFailedRemoved ==
  [][/\ (Range(paths) \ Range(paths')) \subseteq bad
     /\ crashed' # "ValueError"]_vars

\* C19: whenever the engine is Idle with a current slide, the catalog entry
\* at position index is the path of the current slide.
C19_IndexIsCurrent ==
  (crashed = "none" /\ ~transitioning /\ current_slide # None)
    => (index < Len(paths) /\ At(paths, index) = current_slide)

\* ----------------------------------------- _begin_transition called directly
\* _begin_transition(target_index) called on the object between two
\* handlers while a transition is Active.  (run() never does: _advance
\* finishes the transition first and _update tests `not transitioning`;
\* from Idle the call is what _advance and _update make.)
BeginTransitionCall(target_index) ==
  /\ pc = "loop"
  /\ running
  /\ transitioning
  /\ Install(BeginTransition([Cur EXCEPT !.loc.h = "call"], target_index))
  /\ UNCHANGED bad

\* The targets are those run() passes: the position after and the one
\* before index, reduced modulo the catalog length by _begin_transition.
NextBeginCall ==
  \/ Next
  \/ \E t \in {index + 1, index - 1} : BeginTransitionCall(t)

SpecBeginCall == Init /\ [][NextBeginCall]_vars

\* Between two handlers of run(), transitioning is true iff next_slide is
\* a slide.
C20_FlagAgrees ==
  pc = "loop" => (transitioning <=> next_slide # None)

\* _begin_transition called while Active returns to its caller with next,
\* the start time, alpha, the catalog, the slot and the preload threads as
\* they were.
C20_CallNoOp ==
  (pc = "loop" /\ running /\ transitioning) =>
     \A t \in (-1)..MaxPaths :
        LET r == BeginTransition([Cur EXCEPT !.loc.h = "call"], t)
        IN  /\ r.pc = "loop" /\ r.crashed = "none"
            /\ r.next_slide = next_slide /\ r.transitioning
            /\ r.trans_age = trans_age /\ r.alpha = alpha
            /\ r.paths = paths /\ r.preloaded = preloaded
            /\ r.threads = threads
            /\ r.index = index /\ r.current_slide = current_slide

\* While a transition is Active no other one begins: next is not replaced.
C20_OneAtATime ==
  (transitioning /\ transitioning') => next_slide' = next_slide

\* C20: between main-loop steps transitioning is true iff next_slide is not
\* None, at most one transition is Active, and _begin_transition called
\* while Active returns without changing next, the start time, alpha, the
\* catalog, the preload slot or the preload threads.
C20_SingleTransition ==
  [](C20_FlagAgrees /\ C20_CallNoOp) /\ [][C20_OneAtATime]_vars

\* A crossfade under way, between two passes of run(): _begin_transition
\* called here returns at once.
C20_Witness ==
  /\ pc = "loop" /\ running /\ transitioning
  /\ current_slide = 1 /\ next_slide = 2 /\ trans_age = 1
  /\ preloaded = 3

====
